---- MODULE Spec2Model ----
(***************************************************************************)
(* Model of the preset applier's edit handler, importer and logger.        *)
(*                                                                         *)
(*   EditHandler.performLineAddition  anchor-relative line insertion       *)
(*   EditHandler.handle               per-file edit pipeline               *)
(*   ModuleImporter                   entry-file discovery and evaluation  *)
(*   Logger                           configure / fake lifecycle           *)
(*                                                                         *)
(* A text is a sequence of one-character strings, a line is a text without *)
(* a line feed.  A search pattern is a one-character regular expression    *)
(* (the empty string stands for a falsy search).                           *)
(***************************************************************************)
EXTENDS Integers, Sequences, FiniteSets, TLC

VARIABLES
  text,        \* performLineAddition: the content argument
  addition,    \* performLineAddition: the LineAddition object (its content array is shared)
  given,       \* the LineAddition object as it was when the last call started
  givenPreset, \* this.preset as it was when the last call started
  returned,    \* outcome of the last call of performLineAddition
  thisPreset,  \* EditHandler.preset
  fs,          \* the target directory: path -> [kind, data]
  fs0,         \* the target directory before the run
  log,         \* the file operations and skip notices of handle, in order
  seen,        \* per path: the text handle read and the additions as they were then
  calls,       \* per call of handle: its action, its position and its working text
  importer,    \* ModuleImporter: the directory, the script and the outcome of its calls
  logger       \* Logger: its fields, the DEBUG variable and what reached the base logger

vars == <<text, addition, given, givenPreset, returned, thisPreset, fs, fs0, log, seen, calls,
          importer, logger>>

(***************************************************************************)
(* Bounds of the explored inputs.                                          *)
(***************************************************************************)
MaxLines == 3
MaxSkip == 2
MaxFiles == 2
MaxEditions == 2
MaxAdditions == 2
MaxInstances == 2
MaxMessages == 1

(***************************************************************************)
(* Characters and strings.                                                 *)
(***************************************************************************)
LF == "\n"
Space == " "
Tab == "\t"
CR == "\r"
Double == <<"d", "o", "u", "b", "l", "e">>

\* Array.prototype.reverse (the order it produces).
reverse(s) == [i \in 1..Len(s) |-> s[Len(s) + 1 - i]]

\* String.prototype.repeat for a count >= 0.
RECURSIVE repeat(_, _)
repeat(s, n) == IF n <= 0 THEN <<>> ELSE s \o repeat(s, n - 1)

\* String.prototype.split('\n').
RECURSIVE split(_)
split(s) ==
  IF \A i \in DOMAIN s : s[i] # LF
  THEN <<s>>
  ELSE LET p == CHOOSE i \in DOMAIN s : s[i] = LF /\ \A j \in 1..(i - 1) : s[j] # LF
       IN  <<SubSeq(s, 1, p - 1)>> \o split(SubSeq(s, p + 1, Len(s)))

\* Array.prototype.join('\n').
RECURSIVE join(_)
join(lines) ==
  IF Len(lines) = 0 THEN <<>>
  ELSE IF Len(lines) = 1 THEN lines[1]
  ELSE lines[1] \o <<LF>> \o join(Tail(lines))

\* String.prototype.includes.
includes(s, scope) ==
  \E i \in 0..(Len(s) - Len(scope)) : SubSeq(s, i + 1, i + Len(scope)) = scope

\* line.match(search) for a one-character pattern: truthy iff the line contains it.
match(line, search) == \E i \in DOMAIN line : line[i] = search

\* detectIndent(line).indent for a single line: the leading run of spaces, or
\* else the leading run of tabs (INDENT_REGEX = /^(?:( )+|\t+)/).
detectIndent(line) ==
  IF Len(line) = 0 \/ line[1] \notin {Space, Tab}
  THEN <<>>
  ELSE LET n == CHOOSE k \in 1..Len(line) :
                  /\ \A i \in 1..k : line[i] = line[1]
                  /\ (k = Len(line) \/ line[k + 1] # line[1])
       IN  SubSeq(line, 1, n)

(***************************************************************************)
(* Contextual values.                                                      *)
(***************************************************************************)
\* A contextual value is a literal [fn |-> FALSE, lit |-> v] or a callback
\* [fn |-> TRUE, key |-> k] that reads field k of the preset it is given.
contextualizeValue(preset, value) ==
  IF value.fn THEN preset[value.key] ELSE value.lit

\* wrap: an array is returned as it is, any other value becomes a one-element array.
\* A content value is [isArray |-> BOOLEAN, items |-> lines].
wrap(value) == value.items

(***************************************************************************)
(* performLineAddition.                                                    *)
(***************************************************************************)
\* !additionIndent : undefined, 0 and '' are falsy.
isFalsyIndent(additionIndent) ==
  \/ additionIndent.type = "undefined"
  \/ additionIndent.type = "number" /\ additionIndent.n = 0
  \/ additionIndent.type = "string" /\ additionIndent.s = <<>>

\* The line pushed for one lineToAdd (lines 113-134).
indentedLine(additionIndent, previousLine, lineToAdd) ==
  LET indent == detectIndent(previousLine) IN
  IF isFalsyIndent(additionIndent) THEN indent \o lineToAdd
  ELSE IF additionIndent.type = "string" /\ additionIndent.s = Double
       THEN repeat(indent, 2) \o lineToAdd
  ELSE IF additionIndent.type = "number"
       THEN repeat(<<Space>>, additionIndent.n) \o lineToAdd
  ELSE additionIndent.s \o lineToAdd

\* ' '.repeat(n) throws a RangeError for a negative count.
addingThrows(additionIndent) ==
  /\ ~isFalsyIndent(additionIndent)
  /\ additionIndent.type = "number"
  /\ additionIndent.n < 0

\* Mutant of orderedContentToAdd: the block is not reversed for 'above'.
orderedContentToAdd_NoReverse(direction, contentToAdd) == contentToAdd

\* Line 78: reverse() reverses contentToAdd in place and returns it.
orderedContentToAdd(direction, contentToAdd) ==
  IF direction = "above" THEN reverse(contentToAdd) ELSE contentToAdd

\* Mutant of initialLines: the lines are not reversed for 'above'.
initialLines_NoReverse(direction, content) == split(content)

\* Line 80.
initialLines(direction, content) ==
  IF direction = "above" THEN reverse(split(content)) ELSE split(content)

\* Line 86: the no-op guard.
isNoop(search, contentToAdd) == search = "" \/ Len(contentToAdd) = 0

\* Mutant of isPassedOver: a line after the first match is passed over too.
isPassedOver_MatchOnly(line, search, hasMatch) == ~match(line, search)

\* Line 98: the line is only copied.
isPassedOver(line, search, hasMatch) == ~match(line, search) /\ ~hasMatch

\* Mutant of mustWait: off by one.
mustWait_OffByOne(amountOfLinesBeforeAdding) == amountOfLinesBeforeAdding > 1

\* Line 105.
mustWait(amountOfLinesBeforeAdding) == amountOfLinesBeforeAdding > 0

\* Line 111: the value hasMatch takes once the lines were added.
hasMatchAfterAdding == FALSE

\* Line 112-135: the lines pushed at the insertion point.
addedLines(ordered, additionIndent, previousLine) ==
  [k \in 1..Len(ordered) |-> indentedLine(additionIndent, previousLine, ordered[k])]

\* One iteration of the loop of lines 93-136 on the loop state
\* [finalLines, amount, hasMatch, threw].
scanLine(st, line, search, ordered, additionIndent) ==
  LET pushed == [st EXCEPT !.finalLines = Append(@, line)] IN
  IF isPassedOver(line, search, st.hasMatch) THEN pushed
  ELSE IF mustWait(st.amount)
       THEN [pushed EXCEPT !.hasMatch = TRUE, !.amount = @ - 1]
  ELSE IF addingThrows(additionIndent)
       THEN [pushed EXCEPT !.hasMatch = hasMatchAfterAdding, !.threw = TRUE]
  ELSE [pushed EXCEPT !.hasMatch = hasMatchAfterAdding,
                      !.finalLines = @ \o addedLines(ordered, additionIndent, line)]

\* The loop of lines 93-136, from line i on.
RECURSIVE scanLines(_, _, _, _, _, _)
scanLines(st, lines, i, search, ordered, additionIndent) ==
  IF i > Len(lines) \/ st.threw THEN st
  ELSE scanLines(scanLine(st, lines[i], search, ordered, additionIndent),
                 lines, i + 1, search, ordered, additionIndent)

\* Mutant of finalText: the lines are not put back in file order.
finalText_NoReverse(direction, finalLines) == join(finalLines)

\* Line 138.
finalText(direction, finalLines) ==
  IF direction = "above" THEN join(reverse(finalLines)) ELSE join(finalLines)

\* The content value of the addition after the call: a literal array was
\* reversed in place by line 78, anything else is a fresh array.
contentAfterCall(add, direction) ==
  IF ~add.content.fn /\ add.content.lit.isArray
  THEN [add.content EXCEPT !.lit.items = orderedContentToAdd(direction, @)]
  ELSE add.content

\* this.preset after the call: a content callback hands out an array of the
\* preset itself, which line 78 reversed in place just the same.
presetAfterCall(preset, add, direction) ==
  IF add.content.fn /\ preset[add.content.key].isArray
  THEN [preset EXCEPT ![add.content.key].items = orderedContentToAdd(direction, @)]
  ELSE preset

\* performLineAddition(content, addition) with this.preset = preset:
\* [status, value, addition, preset] where addition and preset are the objects
\* after the call.
performLineAddition(preset, content, add) ==
  LET search == contextualizeValue(preset, add.search)
      direction == contextualizeValue(preset, add.direction)
      contentToAdd == wrap(contextualizeValue(preset, add.content))
      ordered == orderedContentToAdd(direction, contentToAdd)
      additionIndent == contextualizeValue(preset, add.indent)
      amount == contextualizeValue(preset, add.amountOfLinesToSkip)
      after == [add EXCEPT !.content = contentAfterCall(add, direction)]
      presetAfter == presetAfterCall(preset, add, direction)
      st == scanLines([finalLines |-> <<>>, amount |-> amount,
                       hasMatch |-> FALSE, threw |-> FALSE],
                      initialLines(direction, content), 1, search, ordered,
                      additionIndent)
  IN  IF isNoop(search, contentToAdd)
      THEN [status |-> "resolved", value |-> content, addition |-> after,
            preset |-> presetAfter]
      ELSE IF st.threw
      THEN [status |-> "rejected", value |-> <<>>, addition |-> after,
            preset |-> presetAfter]
      ELSE [status |-> "resolved", value |-> finalText(direction, st.finalLines),
            addition |-> after, preset |-> presetAfter]

(***************************************************************************)
(* Inputs of the Line-Addition specification.                              *)
(***************************************************************************)
Lit(v) == [fn |-> FALSE, lit |-> v]
Fn(k) == [fn |-> TRUE, key |-> k]

LineSet == { <<"a">>, <<Tab, "a">>, <<"b">>, <<Space, Space, "b">> }

\* The sequences over S of length at most n.
RECURSIVE SeqsUpTo(_, _)
SeqsUpTo(S, n) ==
  IF n = 0 THEN {<<>>}
  ELSE LET shorter == SeqsUpTo(S, n - 1)
       IN  shorter \cup {Append(q, e) : q \in {x \in shorter : Len(x) = n - 1}, e \in S}

Texts == {join(ls) : ls \in SeqsUpTo(LineSet, MaxLines) \ {<<>>}}

Undefined == [type |-> "undefined", n |-> 0, s |-> <<>>]
Num(k) == [type |-> "number", n |-> k, s |-> <<>>]
Str(t) == [type |-> "string", n |-> 0, s |-> t]

Indents == {Undefined, Str(Double), Num(0), Num(2), Num(0 - 1), Str(<<>>), Str(<<Tab>>)}

Array(ls) == [isArray |-> TRUE, items |-> ls]
Single(l) == [isArray |-> FALSE, items |-> <<l>>]

Contents == {Lit(Array(<<>>)), Lit(Array(<<<<"X">>>>)), Lit(Array(<<<<"X">>, <<"Y">>>>)),
             Lit(Single(<<"X">>)), Lit(Single(<<"X", "b">>)), Fn("lines")}

ThePreset == [id |-> 1, lines |-> Array(<<<<"X">>, <<"Y">>>>)]

Additions ==
  [search : {Lit(""), Lit("b")},
   direction : {Lit("below"), Lit("above")},
   content : Contents,
   indent : {Lit(i) : i \in Indents},
   amountOfLinesToSkip : {Lit(k) : k \in 0..MaxSkip}]

NotCalled == [status |-> "none", value |-> <<>>]

InitAddition ==
  /\ text \in Texts
  /\ addition \in Additions
  /\ given = addition
  /\ givenPreset = ThePreset
  /\ returned = NotCalled
  /\ thisPreset = ThePreset
  /\ fs = <<>> /\ fs0 = <<>> /\ log = <<>> /\ seen = <<>> /\ calls = <<>>
  /\ importer = <<>> /\ logger = <<>>

\* One call performLineAddition(text, addition).
CallPerformLineAddition ==
  /\ returned.status = "none"
  /\ LET r == performLineAddition(thisPreset, text, addition) IN
       /\ returned' = [status |-> r.status, value |-> r.value]
       /\ addition' = r.addition
       /\ thisPreset' = r.preset
  /\ given' = addition
  /\ givenPreset' = thisPreset
  /\ UNCHANGED <<text, fs, fs0, log, seen, calls, importer, logger>>

NextAddition == CallPerformLineAddition

SpecAddition == InitAddition /\ [][NextAddition]_vars

\* Texts in the three line-ending styles: logical lines joined by LF, CR LF or CR.
RECURSIVE joinWith(_, _)
joinWith(lines, separator) ==
  IF Len(lines) = 0 THEN <<>>
  ELSE IF Len(lines) = 1 THEN lines[1]
  ELSE lines[1] \o separator \o joinWith(Tail(lines), separator)

LineEndings == {<<LF>>, <<CR, LF>>, <<CR>>}

StyledTexts ==
  {joinWith(ls, e) : ls \in SeqsUpTo({<<"a">>, <<"b">>}, MaxLines) \ {<<>>}, e \in LineEndings}

InitLineEndings ==
  /\ text \in StyledTexts
  /\ addition \in {a \in Additions : a.indent = Lit(Undefined)}
  /\ given = addition
  /\ givenPreset = ThePreset
  /\ returned = NotCalled
  /\ thisPreset = ThePreset
  /\ fs = <<>> /\ fs0 = <<>> /\ log = <<>> /\ seen = <<>> /\ calls = <<>>
  /\ importer = <<>> /\ logger = <<>>

SpecLineEndings == InitLineEndings /\ [][NextAddition]_vars

(***************************************************************************)
(* handle.                                                                 *)
(*                                                                         *)
(* handle runs without suspension from its call to the first await of      *)
(* line 63, and from one await to the next.  A machine state               *)
(* m = [fs, log, seen, call] is what such a run reads and changes.         *)
(***************************************************************************)
\* Mutant of isRegularFile: only existence is tested.
isRegularFile_ExistsOnly(files, path) == files[path].kind # "none"

\* Line 48: fs.existsSync(filePath) && fs.statSync(filePath).isFile().
isRegularFile(files, path) == files[path].kind = "file"

\* The edition callbacks of the explored actions: (content, preset) => ...
\*   "nothing"     returns undefined
\*   "empty"       returns ''
\*   "appendLine"  returns content + '\nb'
\*   "throws"      throws
applyEdition(edition, content, preset) ==
  CASE edition = "nothing" -> [threw |-> FALSE, nullish |-> TRUE, value |-> <<>>]
    [] edition = "empty" -> [threw |-> FALSE, nullish |-> FALSE, value |-> <<>>]
    [] edition = "appendLine" ->
         [threw |-> FALSE, nullish |-> FALSE, value |-> content \o <<LF, "b">>]
    [] edition = "throws" -> [threw |-> TRUE, nullish |-> TRUE, value |-> <<>>]

\* Mutant of coalesce: || in place of ??, an empty string counts as no change.
coalesce_Falsy(result, content) ==
  IF result.nullish \/ result.value = <<>> THEN content ELSE result.value

\* Line 58: edition?.(content, action.preset) ?? content.
coalesce(result, content) == IF result.nullish THEN content ELSE result.value

\* Lines 57-59: action.edition.forEach, from entry i on.
RECURSIVE performEditions(_, _, _, _)
performEditions(edition, i, content, preset) ==
  IF i > Len(edition) THEN [threw |-> FALSE, content |-> content]
  ELSE LET r == applyEdition(edition[i], content, preset) IN
       IF r.threw THEN [threw |-> TRUE, content |-> content]
       ELSE performEditions(edition, i + 1, coalesce(r, content), preset)

\* Mutant of abortRun: the working text is written back before handle rejects.
abortRun_PartialWrite(m) ==
  [m EXCEPT !.call.pc = "rejected",
            !.fs[m.call.action.files[m.call.fileIdx]].data = m.call.content]

\* The presets of the calls after call c has run up to m: this.preset is the
\* preset object of the action that set it, so what a call did to it shows in
\* every action holding that object.
callsAfter(c, m) ==
  [d \in DOMAIN calls |->
     IF d = c THEN m.call
     ELSE IF calls[d].action.preset.id = m.thisPreset.id
     THEN [calls[d] EXCEPT !.action.preset = m.thisPreset]
     ELSE calls[d]]

\* An exception leaves the loop of lines 44-68: handle rejects, nothing is written.
abortRun(m) == [m EXCEPT !.call.pc = "rejected"]

\* Lines 66-67, and the step to the next file.
writeBack(m) ==
  LET path == m.call.action.files[m.call.fileIdx] IN
  [m EXCEPT !.fs[path].data = m.call.content,
            !.log = Append(@, [op |-> "write", path |-> path]),
            !.call.fileIdx = @ + 1]

\* Lines 49-50: the notice, and the step to the next file.
skipFile(m) ==
  LET path == m.call.action.files[m.call.fileIdx] IN
  [m EXCEPT !.log = Append(@, [op |-> "skip", path |-> path]),
            !.call.fileIdx = @ + 1]

\* Line 54.
readFile(m) ==
  LET path == m.call.action.files[m.call.fileIdx] IN
  [m EXCEPT !.log = Append(@, [op |-> "read", path |-> path]),
            !.call.content = m.fs[path].data,
            !.seen[path] = [read |-> TRUE, text |-> m.fs[path].data,
                            additions |-> m.call.action.additions]]

RECURSIVE runFiles(_, _)
RECURSIVE runAdditions(_, _)

\* Lines 44-59: the loop over the files from the top of an iteration, with
\* this.preset = preset.
runFiles(m, preset) ==
  IF m.call.fileIdx > Len(m.call.action.files)
  THEN [m EXCEPT !.call.pc = "resolved"]
  ELSE IF ~isRegularFile(m.fs, m.call.action.files[m.call.fileIdx])
  THEN runFiles(skipFile(m), preset)
  ELSE LET m1 == readFile(m)
           ed == performEditions(m1.call.action.edition, 1, m1.call.content,
                                 m1.call.action.preset)
       IN  IF ed.threw THEN abortRun(m1)
           ELSE runAdditions([m1 EXCEPT !.call.content = ed.content,
                                        !.call.addIdx = 1], preset)

\* Lines 62-67: the loop over the additions from the top of an iteration; it
\* calls performLineAddition and suspends at the await, or writes the file
\* and goes on with the next one.
runAdditions(m, preset) ==
  IF m.call.addIdx > Len(m.call.action.additions)
  THEN runFiles(writeBack(m), preset)
  ELSE LET r == performLineAddition(preset, m.call.content,
                                    m.call.action.additions[m.call.addIdx])
       IN  [m EXCEPT !.call.action.additions[m.call.addIdx] = r.addition,
                     !.call.action.preset = IF @.id = preset.id THEN r.preset ELSE @,
                     !.thisPreset = r.preset,
                     !.call.promise = [status |-> r.status, value |-> r.value],
                     !.call.resolvedWith = Append(@, preset.id),
                     !.call.pc = "awaiting"]

(***************************************************************************)
(* Inputs of the handle specification.                                     *)
(***************************************************************************)
Paths == 1..MaxFiles

FileStates ==
  { [kind |-> "none", data |-> <<>>], [kind |-> "dir", data |-> <<>>],
    [kind |-> "file", data |-> <<"a">>], [kind |-> "file", data |-> <<"b">>] }

EditionSet == {"nothing", "empty", "appendLine", "throws"}

\* Adds the line b below every anchor.
AddBelow ==
  [search |-> Lit("b"), direction |-> Lit("below"), content |-> Lit(Single(<<"b">>)),
   indent |-> Lit(Undefined), amountOfLinesToSkip |-> Lit(0)]
\* Adds the lines X, Y (a literal array) above every anchor.
AddAbove ==
  [search |-> Lit("b"), direction |-> Lit("above"),
   content |-> Lit(Array(<<<<"X">>, <<"Y">>>>)),
   indent |-> Lit(Undefined), amountOfLinesToSkip |-> Lit(0)]
\* Throws a RangeError at the first line holding an a.
AddThrowing ==
  [search |-> Lit("a"), direction |-> Lit("below"), content |-> Lit(Single(<<"X">>)),
   indent |-> Lit(Num(0 - 1)), amountOfLinesToSkip |-> Lit(0)]

AdditionSet == {AddBelow, AddAbove, AddThrowing}

\* this.preset before the first call of handle.
UnsetPreset == [id |-> 0, lines |-> Array(<<>>)]

NotRead == [read |-> FALSE, text |-> <<>>, additions |-> <<>>]

\* A call of handle that has not started: its action, and resolvedWith, the
\* presets its additions were resolved with so far.
NewCallOf(preset, edition, additions) ==
  [action |-> [preset |-> preset, files |-> [i \in 1..MaxFiles |-> i],
               edition |-> edition, additions |-> additions],
   pc |-> "pending", fileIdx |-> 0, addIdx |-> 0, content |-> <<>>,
   promise |-> NotCalled, resolvedWith |-> <<>>]

NewCall(edition, additions) == NewCallOf(ThePreset, edition, additions)

Init ==
  /\ fs \in [Paths -> FileStates]
  /\ fs0 = fs
  /\ log = <<>>
  /\ seen = [p \in Paths |-> NotRead]
  /\ \E edition \in SeqsUpTo(EditionSet, MaxEditions),
        additions \in SeqsUpTo(AdditionSet, MaxAdditions) :
       calls = [c \in {1} |-> NewCall(edition, additions)]
  /\ thisPreset = UnsetPreset
  /\ text = <<>> /\ addition = AddBelow /\ given = AddBelow /\ givenPreset = UnsetPreset
  /\ returned = NotCalled
  /\ importer = <<>> /\ logger = <<>>

\* handle(action, applierOptions) is called: lines 31-41, then the loop up to
\* its first await or its end.
HandleCall(c) ==
  /\ calls[c].pc = "pending"
  /\ LET m == runFiles([fs |-> fs, log |-> log, seen |-> seen,
                        thisPreset |-> calls[c].action.preset,
                        call |-> [calls[c] EXCEPT !.pc = "running", !.fileIdx = 1]],
                       calls[c].action.preset)
     IN  /\ fs' = m.fs
         /\ log' = m.log
         /\ seen' = m.seen
         /\ thisPreset' = m.thisPreset
         /\ calls' = callsAfter(c, m)
  /\ UNCHANGED <<text, addition, given, givenPreset, returned, fs0, importer, logger>>

\* handle resumes at the await of line 63, up to its next await or its end.
HandleResume(c) ==
  /\ calls[c].pc = "awaiting"
  /\ LET m0 == [fs |-> fs, log |-> log, seen |-> seen, thisPreset |-> thisPreset,
                call |-> calls[c]]
         m == IF calls[c].promise.status = "rejected"
              THEN abortRun(m0)
              ELSE runAdditions([m0 EXCEPT !.call.content = calls[c].promise.value,
                                           !.call.addIdx = @ + 1,
                                           !.call.pc = "running"], thisPreset)
     IN  /\ fs' = m.fs
         /\ log' = m.log
         /\ seen' = m.seen
         /\ thisPreset' = m.thisPreset
         /\ calls' = callsAfter(c, m)
  /\ UNCHANGED <<text, addition, given, givenPreset, returned, fs0, importer, logger>>

Next == \E c \in DOMAIN calls : HandleCall(c) \/ HandleResume(c)

Spec == Init /\ [][Next]_vars

\* Two calls of handle on one EditHandler, each with its own preset and with
\* additions whose content is a callback on the preset.
OtherPreset == [id |-> 2, lines |-> Array(<<<<"Z">>>>)]

AddFromPreset ==
  [search |-> Lit("b"), direction |-> Lit("below"), content |-> Fn("lines"),
   indent |-> Lit(Undefined), amountOfLinesToSkip |-> Lit(0)]
AddFromPresetAbove == [AddFromPreset EXCEPT !.direction = Lit("above")]

InitConcurrent ==
  /\ fs = [p \in Paths |-> [kind |-> "file", data |-> <<"b">>]]
  /\ fs0 = fs
  /\ log = <<>>
  /\ seen = [p \in Paths |-> NotRead]
  /\ \E first, second \in SeqsUpTo({AddFromPreset, AddFromPresetAbove, AddBelow}, MaxAdditions) \ {<<>>} :
       calls = <<NewCallOf(ThePreset, <<>>, first), NewCallOf(OtherPreset, <<>>, second)>>
  /\ thisPreset = UnsetPreset
  /\ text = <<>> /\ addition = AddBelow /\ given = AddBelow /\ givenPreset = UnsetPreset
  /\ returned = NotCalled
  /\ importer = <<>> /\ logger = <<>>

SpecConcurrent == InitConcurrent /\ [][Next]_vars

(***************************************************************************)
(* Vocabulary of the Line-Addition properties: the arguments of the last   *)
(* call as they were resolved when it started, and the lines of its input  *)
(* and of its result.                                                      *)
(***************************************************************************)
gSearch == contextualizeValue(givenPreset, given.search)
gDirection == contextualizeValue(givenPreset, given.direction)
gContent == wrap(contextualizeValue(givenPreset, given.content))
gIndent == contextualizeValue(givenPreset, given.indent)
gSkip == contextualizeValue(givenPreset, given.amountOfLinesToSkip)

inLines == split(text)
outLines == split(returned.value)

Called == returned.status # "none"
\* The call passed the no-op guard and returned a text.
Inserting == returned.status = "resolved" /\ gSearch # "" /\ Len(gContent) > 0

Matching == {i \in DOMAIN inLines : match(inLines[i], gSearch)}
Min(S) == CHOOSE x \in S : \A y \in S : x <= y
Max(S) == CHOOSE x \in S : \A y \in S : x >= y

\* The n-th smallest element of S.
RECURSIVE Nth(_, _)
Nth(S, n) == IF n = 1 THEN Min(S) ELSE Nth(S \ {Min(S)}, n - 1)

\* l is s behind a prefix of spaces and tabs.
IsIndented(l, s) ==
  \E p \in 0..Len(l) :
    /\ SubSeq(l, p + 1, Len(l)) = s
    /\ \A i \in 1..p : l[i] \in {Space, Tab}

\* out holds the content block at positions j+1 .. j+Len(block), in block order.
BlockAt(out, j, block) ==
  /\ Len(out) >= j + Len(block)
  /\ \A m \in 1..Len(block) : IsIndented(out[j + m], block[m])

(***************************************************************************)
(* C1. Single insertion: a call with a truthy search and a non-empty       *)
(* content list adds the content block at most once, however many lines    *)
(* match (the result has at most Len(content) lines more than the input).  *)
(***************************************************************************)
C1_SingleInsertion ==
  Inserting => Len(outLines) - Len(inLines) <= Len(gContent)

(***************************************************************************)
(* C2 as stated. With skip N and direction 'below' the block directly      *)
(* follows the (N+1)-th matching line: only matching lines consume the     *)
(* skip budget.                                                            *)
(***************************************************************************)
C2_SkipCountsMatchingLines ==
  (Inserting /\ gDirection = "below" /\ Cardinality(Matching) >= gSkip + 1)
    => LET j == Nth(Matching, gSkip + 1) IN
         /\ SubSeq(outLines, 1, j) = SubSeq(inLines, 1, j)
         /\ BlockAt(outLines, j, gContent)

(***************************************************************************)
(* C2 amended. With skip N and direction 'below' the first block directly  *)
(* follows the line that lies N lines after the first matching line: every *)
(* line scanned after the first match consumes the budget, matching or not.*)
(***************************************************************************)
C2_SkipCountsLines ==
  (Inserting /\ gDirection = "below" /\ Matching # {}
     /\ Min(Matching) + gSkip <= Len(inLines))
    => LET j == Min(Matching) + gSkip IN
         /\ SubSeq(outLines, 1, j) = SubSeq(inLines, 1, j)
         /\ BlockAt(outLines, j, gContent)

\* A block placed behind a non-matching line that followed the first match.
C2_Witness ==
  /\ Inserting /\ gDirection = "below" /\ gSkip >= 1 /\ Matching # {}
  /\ Min(Matching) + gSkip <= Len(inLines)
  /\ Min(Matching) + gSkip \notin Matching
  /\ Len(outLines) > Len(inLines)

(***************************************************************************)
(* C3. Direction symmetry: with skip 0 and one matching line, 'below' puts *)
(* the whole block directly after the anchor and 'above' directly before   *)
(* it, and in both directions the block keeps the order of the content     *)
(* list.                                                                   *)
(***************************************************************************)
C3_DirectionSymmetry ==
  (Inserting /\ gSkip = 0 /\ Cardinality(Matching) = 1)
    => LET i == Min(Matching)
           k == Len(gContent)
           j == IF gDirection = "below" THEN i ELSE i - 1
       IN  /\ Len(outLines) = Len(inLines) + k
           /\ SubSeq(outLines, 1, j) = SubSeq(inLines, 1, j)
           /\ BlockAt(outLines, j, gContent)
           /\ SubSeq(outLines, j + k + 1, Len(outLines))
                = SubSeq(inLines, j + 1, Len(inLines))

\* A two-line block placed above an anchor that is not the first line.
C3_Witness ==
  /\ Inserting /\ gSkip = 0 /\ Cardinality(Matching) = 1
  /\ gDirection = "above" /\ Len(gContent) = 2 /\ Min(Matching) > 1
  /\ Len(outLines) = Len(inLines) + 2

(***************************************************************************)
(* C4. Indentation modes: with u the leading-whitespace unit of the anchor *)
(* line, an inserted line s is emitted as u+s (indent unset), u+u+s        *)
(* ('double'), N spaces + s (a number N >= 0, 0 included) and t+s (any     *)
(* other string t, the empty string included).                             *)
(***************************************************************************)
C4_Emitted(ind, u, s) ==
  IF ind.type = "undefined" THEN u \o s
  ELSE IF ind.type = "number" THEN [i \in 1..ind.n |-> Space] \o s
  ELSE IF ind.s = Double THEN u \o u \o s
  ELSE ind.s \o s

C4_IndentationModes ==
  (Inserting /\ gSkip = 0 /\ gDirection = "below" /\ Cardinality(Matching) = 1)
    => LET i == Min(Matching)
           u == detectIndent(inLines[i])
       IN  /\ Len(outLines) >= i + Len(gContent)
           /\ \A m \in 1..Len(gContent) :
                outLines[i + m] = C4_Emitted(gIndent, u, gContent[m])

(***************************************************************************)
(* C5 as stated. A skip budget greater than or equal to the number of      *)
(* matching lines inserts nothing: the result has the lines of the input.  *)
(***************************************************************************)
C5_SkipBeyondMatchingLines ==
  (Called /\ gSearch # "" /\ Len(gContent) > 0 /\ gSkip >= Cardinality(Matching))
    => returned.status = "resolved" /\ outLines = inLines

(***************************************************************************)
(* C5 amended. A skip budget greater than or equal to the number of lines  *)
(* from the first matching line in scan order to the last scanned line     *)
(* (both included) inserts nothing: the result has the lines of the input. *)
(***************************************************************************)
C5_LinesFromFirstMatch ==
  IF Matching = {} THEN 0
  ELSE IF gDirection = "above" THEN Max(Matching)
  ELSE Len(inLines) - Min(Matching) + 1

C5_SkipBeyondLastLine ==
  (Called /\ gSearch # "" /\ Len(gContent) > 0 /\ gSkip >= C5_LinesFromFirstMatch)
    => returned.status = "resolved" /\ outLines = inLines

\* A budget that runs out of lines after a match, a non-matching line included.
C5_Witness ==
  /\ Called /\ gSearch # "" /\ Len(gContent) > 0 /\ Matching # {}
  /\ gSkip >= C5_LinesFromFirstMatch /\ C5_LinesFromFirstMatch >= 2
  /\ Cardinality(Matching) = 1
  /\ returned.value = text

(***************************************************************************)
(* C6. Zero anchors: when no line matches the search pattern the result    *)
(* has exactly the lines of the input, in both directions and for any      *)
(* skip.                                                                   *)
(***************************************************************************)
C6_ZeroAnchorsIdentity ==
  (Called /\ Matching = {}) => returned.status = "resolved" /\ outLines = inLines

\* A scan from the bottom over several distinct lines, none matching.
C6_Witness ==
  /\ Called /\ Matching = {} /\ gSearch # "" /\ Len(gContent) > 0
  /\ gDirection = "above" /\ gSkip > 0
  /\ Len(inLines) >= 2 /\ inLines[1] # inLines[2]
  /\ outLines = inLines

(***************************************************************************)
(* Vocabulary of the handle properties.                                    *)
(***************************************************************************)
theCall == calls[1]
theAction == theCall.action
enumerated == theAction.files

IsWrite(e) == e.op = "write"
IsAccess(e) == e.op \in {"read", "write"}
Touches(p, e) == e.path = p

\* The paths written, in the order of the writes.
writtenPaths == [i \in DOMAIN SelectSeq(log, IsWrite) |-> SelectSeq(log, IsWrite)[i].path]
writesTo(p) == Cardinality({i \in DOMAIN log : log[i].op = "write" /\ log[i].path = p})
accessesTo(p) == Cardinality({i \in DOMAIN log : IsAccess(log[i]) /\ log[i].path = p})

\* The enumerated paths that were regular files before the run, in enumeration order.
IsRegular0(p) == fs0[p].kind = "file"
regularInOrder == SelectSeq(enumerated, IsRegular0)

IsPrefix(a, b) == Len(a) <= Len(b) /\ SubSeq(b, 1, Len(a)) = a

\* The editions applied in list order: a nullish result keeps the text, any
\* other string replaces it.
RECURSIVE EditionsInOrder(_, _, _, _)
EditionsInOrder(t, edition, i, preset) ==
  IF i > Len(edition) THEN t
  ELSE LET r == applyEdition(edition[i], t, preset)
       IN  EditionsInOrder(IF r.nullish THEN t ELSE r.value, edition, i + 1, preset)

\* The additions applied in list order, each to the output of the one before.
RECURSIVE AdditionsInOrder(_, _, _, _)
AdditionsInOrder(t, additions, i, preset) ==
  IF i > Len(additions) THEN t
  ELSE AdditionsInOrder(performLineAddition(preset, t, additions[i]).value,
                        additions, i + 1, preset)

\* The text the pipeline owes a file, from what was read of it.
Edited(p) ==
  AdditionsInOrder(EditionsInOrder(seen[p].text, theAction.edition, 1, theAction.preset),
                   seen[p].additions, 1, theAction.preset)

(***************************************************************************)
(* C7. Purity across files: one Edit action with a single direction        *)
(* 'above' addition whose content is a literal list of several lines,      *)
(* applied to files with identical text, leaves the same text in every one *)
(* of them, the first and all later ones.                                  *)
(***************************************************************************)
C7_SameOutputForSameText ==
  ( /\ theCall.pc = "resolved"
    /\ Len(theAction.edition) = 0
    /\ Len(theAction.additions) = 1
    /\ theAction.additions[1].direction = Lit("above")
    /\ ~theAction.additions[1].content.fn
    /\ theAction.additions[1].content.lit.isArray
    /\ Len(theAction.additions[1].content.lit.items) >= 2 )
    => \A p, q \in Paths :
         (IsRegular0(p) /\ IsRegular0(q) /\ fs0[p].data = fs0[q].data)
           => fs[p].data = fs[q].data

(***************************************************************************)
(* C8. Pipeline order: the text written to a file is the text read from it *)
(* with every edition applied in list order and then every addition in     *)
(* list order, each step on the output of the one before; a file is        *)
(* written at most once, and exactly once when handle has resolved.        *)
(***************************************************************************)
C8_PipelineOrder ==
  \A p \in Paths :
    /\ writesTo(p) <= 1
    /\ writesTo(p) = 1
         => /\ seen[p].read /\ seen[p].text = fs0[p].data
            /\ fs[p].data = Edited(p)
    /\ (theCall.pc = "resolved" /\ IsRegular0(p)) => writesTo(p) = 1

\* A resolved run with two editions, one of them returning the empty string,
\* and two additions, that changed a file.
C8_Witness ==
  /\ theCall.pc = "resolved"
  /\ Len(theAction.edition) = 2 /\ theAction.edition[1] = "empty"
  /\ Len(theAction.additions) = 2 /\ theAction.additions[1] # theAction.additions[2]
  /\ \E p \in Paths : writesTo(p) = 1 /\ fs[p].data # fs0[p].data /\ fs[p].data # <<>>

(***************************************************************************)
(* C9. Fail-fast without rollback: when an edition or an addition throws   *)
(* while file k is processed, handle rejects, the files before k hold      *)
(* their fully edited text and file k and the later files hold the text    *)
(* they had before the run.                                                *)
(***************************************************************************)
C9_FailFastNoRollback ==
  /\ theCall.promise.status = "rejected" => theCall.pc \in {"awaiting", "rejected"}
  /\ theCall.pc = "rejected" =>
       LET k == theCall.fileIdx IN
         /\ k \in 1..Len(enumerated)
         /\ \A j \in 1..(k - 1) :
              IF IsRegular0(enumerated[j])
              THEN writesTo(enumerated[j]) = 1 /\ fs[enumerated[j]].data = Edited(enumerated[j])
              ELSE fs[enumerated[j]] = fs0[enumerated[j]]
         /\ \A j \in k..Len(enumerated) :
              /\ fs[enumerated[j]] = fs0[enumerated[j]]
              /\ writesTo(enumerated[j]) = 0
         /\ \A j \in (k + 1)..Len(enumerated) : accessesTo(enumerated[j]) = 0

\* An addition threw on the second file after the first one was rewritten.
C9_Witness ==
  /\ theCall.pc = "rejected" /\ theCall.fileIdx = 2
  /\ theCall.promise.status = "rejected"
  /\ IsRegular0(1) /\ IsRegular0(2)
  /\ fs[1].data # fs0[1].data
  /\ fs[2] = fs0[2]

(***************************************************************************)
(* C10. A path that does not exist or is not a regular file is skipped:    *)
(* it is neither read nor written, it raises no error, and the regular     *)
(* files of the enumeration are still written, in enumeration order.       *)
(***************************************************************************)
C10_NonFilesSkipped ==
  /\ \A p \in Paths :
       ~IsRegular0(p) => fs[p] = fs0[p] /\ accessesTo(p) = 0
  /\ IsPrefix(writtenPaths, regularInOrder)
  /\ theCall.pc = "resolved" => writtenPaths = regularInOrder
  /\ theCall.pc = "rejected" => IsRegular0(enumerated[theCall.fileIdx])

\* A resolved run that skipped a directory and then rewrote a file.
C10_Witness ==
  /\ theCall.pc = "resolved"
  /\ fs0[1].kind = "dir" /\ IsRegular0(2)
  /\ log[1] = [op |-> "skip", path |-> 1]
  /\ writesTo(2) = 1 /\ fs[2].data # fs0[2].data

(***************************************************************************)
(* ModuleImporter.                                                         *)
(*                                                                         *)
(* A directory is [manifest, custom, conv]: manifest tells whether         *)
(* package.json exists and declares a preset path, custom is the kind of   *)
(* the declared path and conv the kind of every conventional path.  A      *)
(* script stands for what it does when it is transformed and run.          *)
(***************************************************************************)
\* ExecutionError and its builder methods.
NewExecutionError ==
  [kind |-> "ExecutionError", message |-> "", stack |-> [kind |-> "own"], halts |-> FALSE]
withMessage(e, message) == [e EXCEPT !.message = message]
withoutStack(e) == [e EXCEPT !.stack = [kind |-> "none"]]
withCompleteStack(e, error) == [e EXCEPT !.stack = error]
stopsExecution(e) == [e EXCEPT !.halts = TRUE]

\* An error thrown by the file system, by esbuild or by the script.
ForeignError(kind) == [kind |-> kind]

Returns(v) == [status |-> "returned", value |-> v, error |-> <<>>]
Throws(e) == [status |-> "threw", value |-> <<>>, error |-> e]

\* Lines 50-51.
paths == <<"preset", "src/preset">>
extensions == <<"ts", "js", "mjs", "cjs">>

\* Mutant of files: the two loops are nested the other way round.
files_ExtensionMajor ==
  [i \in 1..(Len(paths) * Len(extensions)) |->
     <<paths[((i - 1) % Len(paths)) + 1], extensions[((i - 1) \div Len(paths)) + 1]>>]

\* Lines 52-58: file.extension for every path and, within it, every extension.
files ==
  [i \in 1..(Len(paths) * Len(extensions)) |->
     <<paths[((i - 1) \div Len(extensions)) + 1], extensions[((i - 1) % Len(extensions)) + 1]>>]

\* The path package.json declares in the explored directories.
CustomPath == <<"custom", "ts">>

\* Lines 60-70: the first entry of files that exists, or ConfigurationNotFound.
RECURSIVE probe(_, _)
probe(dir, i) ==
  IF i > Len(files)
  THEN Throws(stopsExecution(withoutStack(withMessage(NewExecutionError,
                "The configuration file could not be found"))))
  ELSE IF dir.conv[files[i]] # "none" THEN Returns(files[i])
  ELSE probe(dir, i + 1)

\* Lines 31-46: the path declared by package.json.  fs.statSync throws ENOENT
\* for a path that does not exist.
declared(dir) ==
  IF dir.custom = "none" THEN Throws(ForeignError("ENOENT"))
  ELSE IF dir.custom = "file" THEN Returns(CustomPath)
  ELSE Throws(stopsExecution(withoutStack(withMessage(NewExecutionError,
                "The specified configuration file does not exist"))))

\* findConfiguration(directory).
findConfiguration(dir) ==
  IF dir.manifest = "declares" THEN declared(dir) ELSE probe(dir, 1)

\* Mutant of sandbox: the host's module object is not handed over.
sandbox_NoModule(instance) ==
  [exports |-> [kind |-> "object", keys |-> {}], require |-> [kind |-> "require"],
   Preset |-> instance, color |-> [kind |-> "color"]]

\* Lines 78-84: the object handed to vm.createContext.
sandbox(instance) ==
  [exports |-> [kind |-> "object", keys |-> {}], require |-> [kind |-> "require"],
   module |-> [kind |-> "module"], Preset |-> instance, color |-> [kind |-> "color"]]

\* new Preset(): the n-th instance constructed.
NewPreset(n) == [kind |-> "Preset", id |-> n, actions |-> <<>>]

\* A script is a text of words and line terminators; these are its lines.
LinePopulate == <<"Preset.edit(", "'file.txt')">>
LinePopulateSeparator == <<"Preset.edit(", "require", "('path').sep)">>
LinePopulateColor == <<"Preset.edit(", "'", "color", ".txt')">>
LinePopulateBoth == <<"Preset.edit(", "require", "('path').sep + '", "color", ".txt')">>
LineRebind == <<"Preset = ", "{}">>
LineThrow == <<"throw ", "new Error()">>
LineSyntaxError == <<"}{">>

\* getPackage().name
PackageName == "use-preset"

\* String.prototype.split(/\r\n|\r|\n/).
RECURSIVE splitLines(_)
splitLines(s) ==
  IF \A i \in DOMAIN s : s[i] \notin {CR, LF}
  THEN <<s>>
  ELSE LET p == CHOOSE i \in DOMAIN s :
                  s[i] \in {CR, LF} /\ \A j \in 1..(i - 1) : s[j] \notin {CR, LF}
           next == IF s[p] = CR /\ p < Len(s) /\ s[p + 1] = LF THEN p + 2 ELSE p + 1
       IN  <<SubSeq(s, 1, p - 1)>> \o splitLines(SubSeq(s, next, Len(s)))

\* Lines 108-109.
lineImports(line) ==
  \E statement \in {"import", "require"} : includes(line, <<statement>>)
lineMentionsImportValue(line) ==
  \E imp \in {PackageName, "color", "@/api", "use-preset"} : includes(line, <<imp>>)

\* Lines 107-115: the filter.
keepsLine(line) == ~(lineImports(line) /\ lineMentionsImportValue(line))

\* removeSelfImportStatement(script): lines 104-118.
removeSelfImportStatement(script) == join(SelectSeq(splitLines(script), keepsLine))

\* Lines 86-89: esbuild rejects a script it cannot parse.
transformThrows(script) ==
  \E i \in DOMAIN splitLines(script) : splitLines(script)[i] = LineSyntaxError

\* What one statement of a script does to the context, or that it throws:
\* Preset.edit(...) calls a method of Preset, Preset = {} binds the name to
\* another object, throw throws and leaves the context as the statements
\* before it made it.
RECURSIVE runStatements(_, _, _)
runStatements(statements, i, context) ==
  IF i > Len(statements) THEN Returns(context)
  ELSE IF statements[i] = <<>> THEN runStatements(statements, i + 1, context)
  ELSE IF Head(statements[i]) = "Preset.edit("
  THEN runStatements(statements, i + 1,
         [context EXCEPT !.Preset.actions = Append(@, "edit")])
  ELSE IF Head(statements[i]) = "Preset = "
  THEN runStatements(statements, i + 1,
         [context EXCEPT !.Preset = [kind |-> "object", id |-> 0, actions |-> <<>>]])
  ELSE IF Head(statements[i]) = "throw "
  THEN [Throws(ForeignError("ScriptError")) EXCEPT !.value = context]
  ELSE runStatements(statements, i + 1, context)

\* Line 90: what the run of a script leaves in the context, or that it throws.
runInContext(script, context) == runStatements(splitLines(script), 1, context)

\* Mutant of evaluationError: the original failure is dropped, as in the other throws.
evaluationError_NoStack(error) ==
  stopsExecution(withoutStack(withMessage(NewExecutionError,
    "The preset could not be evaluated.")))

\* Lines 93-98: the catch clause.
evaluationError(error) ==
  stopsExecution(withCompleteStack(withMessage(NewExecutionError,
    "The preset could not be evaluated."), error))

\* evaluateConfiguration(script) when n instances of Preset exist:
\* [status, value, error, sandbox, context].
evaluateConfiguration(script, n) ==
  LET given0 == sandbox(NewPreset(n + 1))
      ran == runInContext(script, given0)
      failure == IF transformThrows(script) THEN ForeignError("TransformError")
                 ELSE ran.error
  IN  IF transformThrows(script) \/ ran.status = "threw"
      THEN [status |-> "rejected", value |-> <<>>, error |-> evaluationError(failure),
            sandbox |-> given0,
            context |-> IF transformThrows(script) THEN given0 ELSE ran.value]
      ELSE [status |-> "resolved", value |-> ran.value.Preset, error |-> <<>>,
            sandbox |-> given0, context |-> ran.value]

\* import(directory), lines 13-20, up to its return.  findConfiguration is not
\* guarded, so what it throws rejects the promise at once; otherwise the
\* script, without the lines removeSelfImportStatement drops, has been
\* evaluated and the promise is pending at the await of line 19, to settle
\* as the evaluation did.
import(dir, script, n) ==
  LET found == findConfiguration(dir)
      evaluation == evaluateConfiguration(removeSelfImportStatement(script), n)
  IN  IF found.status = "threw"
      THEN [status |-> "rejected", settlesAs |-> "rejected", value |-> <<>>,
            error |-> found.error, sandbox |-> <<>>, context |-> <<>>,
            evaluated |-> FALSE]
      ELSE [evaluation EXCEPT !.status = "pending"]
             @@ [settlesAs |-> evaluation.status, evaluated |-> TRUE]

\* Line 19: the await resumes and the promise of import settles.
settleImport(promise) == [promise EXCEPT !.status = promise.settlesAs]

(***************************************************************************)
(* Inputs and actions of the importer specification.                       *)
(***************************************************************************)
ConventionalFiles == {files[i] : i \in DOMAIN files}

Directories ==
  [manifest : {"absent", "plain", "declares"},
   custom : {"none", "file", "dir"},
   conv : [ConventionalFiles -> {"none", "file"}]]

ScriptPopulate == LinePopulate
ScriptRebind == LineRebind
ScriptThrows == LineThrow
ScriptSyntaxError == LineSyntaxError
\* Its only line is dropped by removeSelfImportStatement.
ScriptDropped == LinePopulateBoth
\* A dropped line followed by a kept one, with CR LF line endings.
ScriptDroppedThenThrows == joinWith(<<LinePopulateBoth, LineThrow>>, <<CR, LF>>)
\* Lines that hold only one of the two marks, with CR line endings: none is dropped.
ScriptKept == joinWith(<<LinePopulateSeparator, LinePopulateColor>>, <<CR>>)

Scripts ==
  {ScriptPopulate, ScriptRebind, ScriptThrows, ScriptSyntaxError, ScriptDropped,
   ScriptDroppedThenThrows, ScriptKept}

NoOutcome == [status |-> "none"]

InitImporter ==
  /\ \E dir \in Directories, script \in Scripts :
       importer = [dir |-> dir, script |-> script, instances |-> 0,
                   found |-> NoOutcome, evaluated |-> NoOutcome, imported |-> NoOutcome]
  /\ text = <<>> /\ addition = <<>> /\ given = <<>> /\ givenPreset = <<>>
  /\ returned = NotCalled
  /\ thisPreset = <<>>
  /\ fs = <<>> /\ fs0 = <<>> /\ log = <<>> /\ seen = <<>> /\ calls = <<>>
  /\ logger = <<>>

CallFindConfiguration ==
  /\ importer.found.status = "none"
  /\ importer' = [importer EXCEPT !.found = findConfiguration(importer.dir)]
  /\ UNCHANGED <<text, addition, given, givenPreset, returned, thisPreset, fs, fs0, log, seen,
                 calls, logger>>

CallEvaluateConfiguration ==
  /\ importer.instances < MaxInstances
  /\ importer' = [importer EXCEPT
                    !.evaluated = evaluateConfiguration(importer.script, importer.instances),
                    !.instances = @ + 1]
  /\ UNCHANGED <<text, addition, given, givenPreset, returned, thisPreset, fs, fs0, log, seen,
                 calls, logger>>

\* import(directory) is called and returns its promise; the caller has
\* awaited the promise of an earlier call.
CallImport ==
  /\ importer.instances < MaxInstances
  /\ importer.imported.status # "pending"
  /\ LET r == import(importer.dir, importer.script, importer.instances) IN
       importer' = [importer EXCEPT
                      !.imported = r,
                      !.instances = IF r.evaluated THEN @ + 1 ELSE @]
  /\ UNCHANGED <<text, addition, given, givenPreset, returned, thisPreset, fs, fs0, log, seen,
                 calls, logger>>

\* The microtask turn in which the pending promise of import settles.
SettleImport ==
  /\ importer.imported.status = "pending"
  /\ importer' = [importer EXCEPT !.imported = settleImport(@)]
  /\ UNCHANGED <<text, addition, given, givenPreset, returned, thisPreset, fs, fs0, log,
                 seen, calls, logger>>

NextImporter ==
  CallFindConfiguration \/ CallEvaluateConfiguration \/ CallImport \/ SettleImport

SpecImporter == InitImporter /\ [][NextImporter]_vars

(***************************************************************************)
(* Vocabulary of the importer properties.                                  *)
(***************************************************************************)
theDir == importer.dir
conventionExists == \E f \in ConventionalFiles : theDir.conv[f] = "file"

IsHaltingExecutionError(e, message) ==
  e.kind = "ExecutionError" /\ e.message = message /\ e.halts

(***************************************************************************)
(* C11. Missing manifest override: when package.json declares a preset     *)
(* path that does not exist, findConfiguration and import fail with an     *)
(* ExecutionError that carries the user-facing message and the halt flag,  *)
(* and nothing is probed by convention.                                    *)
(***************************************************************************)
C11_ExplicitFileMissing ==
  (theDir.manifest = "declares" /\ theDir.custom = "none")
    => /\ importer.found.status # "none"
            => /\ importer.found.status = "threw"
               /\ IsHaltingExecutionError(importer.found.error,
                    "The specified configuration file does not exist")
       /\ importer.imported.status # "none"
            => /\ importer.imported.status = "rejected"
               /\ IsHaltingExecutionError(importer.imported.error,
                    "The specified configuration file does not exist")

(***************************************************************************)
(* C12. Discovery order: a declared path that is a file is returned even   *)
(* when conventional files exist; without a declaration the result is the  *)
(* first existing file of preset.ts, preset.js, preset.mjs, preset.cjs,    *)
(* src/preset.ts, src/preset.js, src/preset.mjs, src/preset.cjs, and a     *)
(* halting ExecutionError when none of them exists.                        *)
(***************************************************************************)
C12_Order ==
  << <<"preset", "ts">>, <<"preset", "js">>, <<"preset", "mjs">>, <<"preset", "cjs">>,
     <<"src/preset", "ts">>, <<"src/preset", "js">>, <<"src/preset", "mjs">>,
     <<"src/preset", "cjs">> >>

C12_DiscoveryOrder ==
  importer.found.status # "none" =>
    /\ (theDir.manifest = "declares" /\ theDir.custom = "file")
         => importer.found = Returns(CustomPath)
    /\ (theDir.manifest # "declares" /\ conventionExists)
         => \E i \in DOMAIN C12_Order :
              /\ importer.found = Returns(C12_Order[i])
              /\ theDir.conv[C12_Order[i]] = "file"
              /\ \A j \in 1..(i - 1) : theDir.conv[C12_Order[j]] = "none"
    /\ (theDir.manifest # "declares" /\ ~conventionExists)
         => /\ importer.found.status = "threw"
            /\ IsHaltingExecutionError(importer.found.error,
                 "The configuration file could not be found")

\* src/preset.js found behind missing files, with later files present as well.
C12_Witness ==
  /\ importer.found = Returns(<<"src/preset", "js">>)
  /\ theDir.manifest = "plain"
  /\ theDir.conv[<<"src/preset", "cjs">>] = "file"
  /\ theDir.conv[<<"preset", "mjs">>] = "none"

(***************************************************************************)
(* Vocabulary of the evaluation properties.                                *)
(***************************************************************************)
lastEvaluation == importer.evaluated
evaluationFails ==
  importer.script \in {ScriptSyntaxError, ScriptThrows, ScriptDroppedThenThrows}
originalFailure ==
  IF importer.script = ScriptSyntaxError THEN ForeignError("TransformError")
  ELSE ForeignError("ScriptError")

(***************************************************************************)
(* C13. Evaluation failures: whenever the transform or the run of the      *)
(* script throws, evaluateConfiguration fails with one ExecutionError that *)
(* wraps the original failure with its complete stack and has the halt     *)
(* flag set; the original error does not escape and no Preset is returned. *)
(***************************************************************************)
C13_EvaluationFailureWrapped ==
  lastEvaluation.status # "none" =>
    /\ evaluationFails
         => /\ lastEvaluation.status = "rejected"
            /\ IsHaltingExecutionError(lastEvaluation.error,
                 "The preset could not be evaluated.")
            /\ lastEvaluation.error.stack = originalFailure
            /\ lastEvaluation.value = <<>>
    /\ lastEvaluation.status = "rejected" => evaluationFails

\* A script that throws while it runs was evaluated.
C13_Witness ==
  /\ importer.script = ScriptThrows
  /\ lastEvaluation.status = "rejected"
  /\ lastEvaluation.error.stack = ForeignError("ScriptError")

\* The builder handed to the script is a new, empty Preset: no other call of the
\* importer was given the same instance.
C14_FreshBuilder ==
  /\ lastEvaluation.sandbox.Preset.kind = "Preset"
  /\ lastEvaluation.sandbox.Preset.actions = <<>>
  /\ lastEvaluation.sandbox.Preset.id \in 1..importer.instances
  /\ (importer.imported.status # "none" /\ importer.imported.evaluated)
       => importer.imported.sandbox.Preset.id # lastEvaluation.sandbox.Preset.id

(***************************************************************************)
(* C14 as stated. The context handed to the script holds exactly the four  *)
(* names exports, require, Preset and color, exports being empty and       *)
(* Preset a freshly constructed instance, and the Preset returned is that  *)
(* same instance, read back from the context after the run.                *)
(***************************************************************************)
C14_FourCapabilities ==
  lastEvaluation.status # "none" =>
    /\ DOMAIN lastEvaluation.sandbox = {"exports", "require", "Preset", "color"}
    /\ lastEvaluation.sandbox.exports.keys = {}
    /\ C14_FreshBuilder
    /\ lastEvaluation.status = "resolved"
         => /\ lastEvaluation.value = lastEvaluation.context.Preset
            /\ lastEvaluation.value.id = lastEvaluation.sandbox.Preset.id

(***************************************************************************)
(* C14 amended. The context handed to the script holds exactly the five    *)
(* names exports, require, module, Preset and color, exports being empty   *)
(* and Preset a freshly constructed instance; the Preset returned is what  *)
(* the name Preset is bound to in the context after the run, which is that *)
(* same instance unless the script bound the name to another object.       *)
(***************************************************************************)
C14_FiveCapabilities ==
  lastEvaluation.status # "none" =>
    /\ DOMAIN lastEvaluation.sandbox = {"exports", "require", "module", "Preset", "color"}
    /\ lastEvaluation.sandbox.exports.keys = {}
    /\ C14_FreshBuilder
    /\ lastEvaluation.status = "resolved"
         => /\ lastEvaluation.value = lastEvaluation.context.Preset
            /\ importer.script # ScriptRebind
                 => lastEvaluation.value.id = lastEvaluation.sandbox.Preset.id

\* The second evaluation of a script that populated its own, second, builder.
C14_Witness ==
  /\ importer.script = ScriptPopulate
  /\ importer.instances = 2
  /\ lastEvaluation.status = "resolved"
  /\ lastEvaluation.value.id = 2
  /\ lastEvaluation.value.actions # <<>>

(***************************************************************************)
(* C15. Newline normalization: whatever the line-ending style of the       *)
(* input (LF, CR LF or CR), the result of a call that passes the no-op     *)
(* guard holds no CR: its lines are separated by single LF characters.     *)
(***************************************************************************)
C15_NewlineNormalized ==
  Inserting => \A i \in DOMAIN returned.value : returned.value[i] # CR

(***************************************************************************)
(* C16. Original lines preserved: the result of a call, with the inserted  *)
(* lines deleted, is the sequence of the input's lines in their order, and *)
(* no inserted line is an anchor: there are at most as many blocks as      *)
(* matching lines of the input.                                            *)
(***************************************************************************)
C16_IsOriginal(l) == ~\E m \in DOMAIN gContent : IsIndented(l, gContent[m])

C16_OriginalLinesPreserved ==
  returned.status = "resolved" =>
    /\ SelectSeq(outLines, C16_IsOriginal) = inLines
    /\ Len(outLines) - Len(inLines) <= Cardinality(Matching) * Len(gContent)

\* Lines that match the search themselves were inserted above an anchor of a
\* text of several different lines.
C16_Witness ==
  /\ Inserting /\ gDirection = "above"
  /\ \E m \in DOMAIN gContent : match(gContent[m], gSearch)
  /\ Len(inLines) >= 3 /\ inLines[1] # inLines[3]
  /\ Len(outLines) > Len(inLines)

(***************************************************************************)
(* C17. Own preset under interleaving: when two calls of handle on one     *)
(* EditHandler interleave at the awaits of the additions loop, every       *)
(* addition is resolved with the preset of the action it belongs to.       *)
(***************************************************************************)
C17_ResolvedWithOwnPreset ==
  \A c \in DOMAIN calls :
    \A i \in DOMAIN calls[c].resolvedWith :
      calls[c].resolvedWith[i] = calls[c].action.preset.id

(***************************************************************************)
(* The Logger of EditHandler.ts, lines 157-311.  logger holds its fields,  *)
(* the BaseLogger it wraps (options and captured logs), what was printed   *)
(* on the console and the DEBUG variable of the process environment;       *)
(* multiple is the promise of the latest call of multiple, exitCalledWith  *)
(* the exit code once exit has ended the process.  lastCall remembers the  *)
(* arguments of the latest configure or fake call, lastOp the latest call  *)
(* of debug, success, warn, fatal or info and whether it handed out its    *)
(* message.  The logger is the singleton Log.                              *)
(***************************************************************************)
\* The name of the binary, the first key of "bin" in package.json.
BinName == <<"u", "s", "e">>

toLowerCase(s) ==
  [i \in DOMAIN s |-> CASE s[i] = "T" -> "t" [] s[i] = "R" -> "r"
                        [] s[i] = "U" -> "u" [] s[i] = "E" -> "e"
                        [] s[i] = "S" -> "s" [] OTHER -> s[i]]

isWhiteSpace(c) == c \in {Space, Tab, LF, CR}

RECURSIVE trimStart(_)
trimStart(s) ==
  IF s # <<>> /\ isWhiteSpace(Head(s)) THEN trimStart(Tail(s)) ELSE s

trim(s) == reverse(trimStart(reverse(trimStart(s))))

scopes == <<BinName, <<"*">>, <<"t", "r", "u", "e">>>>

\* process.env.DEBUG ?? ''
environmentDebug(env) == IF env.type = "undefined" THEN <<>> ELSE env.s

environmentWantsDebug(env) ==
  \E k \in DOMAIN scopes : includes(trim(toLowerCase(environmentDebug(env))), scopes[k])

\* lastOp after anything but a call of debug, success, warn, fatal or info.
OtherOp == [name |-> "other", recorded |-> FALSE]

\* An option of configure: left out, true or false.
OptionValues == {"undefined", "true", "false"}

\* fake ?? false
faking(fake) == fake = "true"

debugging_Sticky(l, debug) ==
  IF debug = "undefined" THEN l.debugging ELSE debug = "true"

\* debug === undefined ? this.environmentWantsDebug() : !!debug
debugging(l, debug) ==
  IF debug = "undefined" THEN environmentWantsDebug(l.DEBUG) ELSE debug = "true"

NewBaseLogger(fake, color) == [fake |-> fake, color |-> color, logs |-> <<>>]

configure(l, fake, debug, color) ==
  [l EXCEPT !.faking = faking(fake),
            !.debugging = debugging(l, debug),
            !.base = NewBaseLogger(fake, color),
            !.colors = IF faking(fake) THEN "FakeColors" ELSE "Colors",
            !.lastCall = [fake |-> fake, debug |-> debug, DEBUG |-> l.DEBUG],
            !.lastOp = OtherOp]

fake(l) == configure(l, "true", "undefined", "false")

isFake(l) == l.faking

\* BaseLogger.log: a faked logger keeps the message, a real one prints it.
baseLog(l, level, message) ==
  IF l.base.fake = "true"
    THEN [l EXCEPT !.base.logs = Append(@, [level |-> level, message |-> message])]
    ELSE [l EXCEPT !.console = Append(@, [level |-> level, message |-> message])]

history(l) == l.base.logs

emitted(l) == Len(l.base.logs) + Len(l.console)

\* success, warn, fatal and info
logAt(l, level, message) ==
  LET after == baseLog(l, level, message) IN
    [after EXCEPT !.lastOp = [name |-> level, recorded |-> emitted(after) > emitted(l)]]

debug(l, message) ==
  LET after == IF ~l.debugging THEN l ELSE baseLog(l, "debug", message) IN
    [after EXCEPT !.lastOp = [name |-> "debug", recorded |-> emitted(after) > emitted(l)]]

\* exit(message), lines 307-310: the message goes out at level error and
\* process.exit(0) ends the process.
exit(l, message) ==
  LET after == baseLog(l, "error", message) IN
    [after EXCEPT !.exitCalledWith = Append(@, 0), !.lastOp = OtherOp]

\* The messages argument of multiple: undefined, a string, an array of
\* strings, or a callback whose promise resolves with a string or an array.
NoMessages == [fn |-> FALSE, defined |-> FALSE, isArray |-> FALSE, items |-> <<>>]
OneMessage(message) ==
  [fn |-> FALSE, defined |-> TRUE, isArray |-> FALSE, items |-> <<message>>]
MessageArray(items) ==
  [fn |-> FALSE, defined |-> TRUE, isArray |-> TRUE, items |-> items]
MessageCallback(result) == [result EXCEPT !.fn = TRUE]

\* The promise of the latest call of multiple: none yet, pending with what
\* is still to be handed out, or resolved.
NoMultiple == [status |-> "none", level |-> "", messages |-> NoMessages]
Resolved == [status |-> "resolved", level |-> "", messages |-> NoMessages]

\* Lines 294-298: every message goes to the base logger at the given level.
RECURSIVE logEach(_, _, _)
logEach(l, level, items) ==
  IF items = <<>> THEN l
  ELSE logEach(baseLog(l, level, Head(items)), level, Tail(items))

\* multiple(level, messages), lines 285-302, up to its return: nothing for no
\* messages, suspended at the await of line 291 for a callback, all messages
\* handed out otherwise.
multiple(l, level, messages) ==
  LET after == IF ~messages.defined THEN l
               ELSE IF messages.fn THEN l
               ELSE logEach(l, level, messages.items)
  IN  [after EXCEPT
         !.multiple = IF messages.defined /\ messages.fn
                      THEN [status |-> "pending", level |-> level, messages |-> messages]
                      ELSE Resolved,
         !.lastOp = OtherOp]

\* The await of line 291 resumes: the messages the callback gave go to the
\* base logger the singleton has by now.
resumeMultiple(l) ==
  LET after == logEach(l, l.multiple.level, l.multiple.messages.items) IN
    [after EXCEPT !.multiple = Resolved, !.lastOp = OtherOp]

\* The messages a suspended call of multiple is still to hand out.
reserved(l) ==
  IF l.multiple.status = "pending" THEN Len(l.multiple.messages.items) ELSE 0

Environments ==
  { Undefined, Str(<<Space, "T", "R", "U", "E">>), Str(<<"*">>), Str(BinName),
    Str(<<"0">>) }

Messages == {"m"}

MessageValues ==
  {NoMessages} \cup {OneMessage(message) : message \in Messages}
    \cup {MessageArray(items) : items \in SeqsUpTo(Messages, MaxMessages)}

MessageArguments ==
  MessageValues \cup {MessageCallback(result) : result \in MessageValues \ {NoMessages}}

\* Levels of the base logger that multiple is called with.
MultipleLevels == {"info"}

\* The Logger before its constructor has run.
Unconfigured(env) ==
  [faking |-> FALSE, debugging |-> FALSE, colors |-> "Colors",
   base |-> NewBaseLogger("undefined", "undefined"), console |-> <<>>,
   DEBUG |-> env,
   lastCall |-> [fake |-> "undefined", debug |-> "undefined", DEBUG |-> env],
   lastOp |-> OtherOp,
   multiple |-> NoMultiple, exitCalledWith |-> <<>>]

InitLogger ==
  /\ \E env \in Environments :
       logger = configure(Unconfigured(env), "undefined", "undefined", "undefined")
  /\ text = <<>> /\ addition = <<>> /\ given = <<>> /\ givenPreset = <<>>
  /\ returned = NotCalled
  /\ thisPreset = <<>>
  /\ fs = <<>> /\ fs0 = <<>> /\ log = <<>> /\ seen = <<>> /\ calls = <<>>
  /\ importer = <<>>

\* A step of the Logger, in a process that has not exited.
LoggerStep(after) ==
  /\ logger.exitCalledWith = <<>>
  /\ logger' = after
  /\ UNCHANGED <<text, addition, given, givenPreset, returned, thisPreset, fs, fs0, log, seen,
                 calls, importer>>

CallConfigure ==
  \E f \in OptionValues, d \in OptionValues, c \in OptionValues :
    LoggerStep(configure(logger, f, d, c))

CallFake == LoggerStep(fake(logger))

CallDebug ==
  /\ emitted(logger) + reserved(logger) < MaxMessages
  /\ \E message \in Messages : LoggerStep(debug(logger, message))

CallSuccess ==
  /\ emitted(logger) + reserved(logger) < MaxMessages
  /\ \E message \in Messages : LoggerStep(logAt(logger, "success", message))

CallWarn ==
  /\ emitted(logger) + reserved(logger) < MaxMessages
  /\ \E message \in Messages : LoggerStep(logAt(logger, "warn", message))

CallFatal ==
  /\ emitted(logger) + reserved(logger) < MaxMessages
  /\ \E message \in Messages : LoggerStep(logAt(logger, "fatal", message))

CallInfo ==
  /\ emitted(logger) + reserved(logger) < MaxMessages
  /\ \E message \in Messages : LoggerStep(logAt(logger, "info", message))

CallExit ==
  /\ emitted(logger) + reserved(logger) < MaxMessages
  /\ \E message \in Messages : LoggerStep(exit(logger, message))

\* multiple(level, messages) is called; the caller has awaited the promise of
\* an earlier call.
CallMultiple ==
  /\ logger.multiple.status # "pending"
  /\ \E level \in MultipleLevels, messages \in MessageArguments :
       /\ emitted(logger) + Len(messages.items) <= MaxMessages
       /\ LoggerStep(multiple(logger, level, messages))

ResumeMultiple ==
  /\ logger.multiple.status = "pending"
  /\ LoggerStep(resumeMultiple(logger))

\* The program assigns process.env.DEBUG.
SetEnvironment ==
  \E env \in Environments :
    LoggerStep([logger EXCEPT !.DEBUG = env, !.lastOp = OtherOp])

NextLogger ==
  \/ CallConfigure \/ CallFake \/ CallDebug \/ CallSuccess \/ CallWarn
  \/ CallFatal \/ CallInfo \/ CallExit \/ CallMultiple \/ ResumeMultiple
  \/ SetEnvironment

SpecLogger == InitLogger /\ [][NextLogger]_vars

(***************************************************************************)
(* C18. Logger lifecycle: isFake() is the fake option of the latest        *)
(* configure or fake call (false when left out); debug() hands out its     *)
(* message exactly when the debug option of that call was true, or was     *)
(* left out while the DEBUG variable, as it stood at that call, asked for  *)
(* debugging, whatever an earlier configure had set; success, warn, info   *)
(* and fatal always hand out their message.                                *)
(***************************************************************************)
C18_Requesting ==
  { Str(<<"t", "r", "u", "e">>), Str(<<Space, "T", "R", "U", "E">>),
    Str(<<"*">>), Str(BinName) }

C18_DebugExpected ==
  \/ logger.lastCall.debug = "true"
  \/ logger.lastCall.debug = "undefined" /\ logger.lastCall.DEBUG \in C18_Requesting

C18_LoggerLifecycle ==
  /\ isFake(logger) = (logger.lastCall.fake = "true")
  /\ logger.lastOp.name = "debug" => (logger.lastOp.recorded <=> C18_DebugExpected)
  /\ logger.lastOp.name \in {"success", "warn", "info", "fatal"}
       => logger.lastOp.recorded

\* A debug() after a fake() that followed configure({debug: true}) while the
\* environment does not ask for debugging: nothing is handed out.
C18_Witness ==
  /\ logger.lastOp.name = "debug"
  /\ logger.lastCall.debug = "undefined"
  /\ isFake(logger)
  /\ ~logger.lastOp.recorded
  /\ logger.lastCall.DEBUG = Str(<<"0">>)

====
